---- MODULE Spec2Model ----
(***************************************************************************)
(* Frame lifecycle and swapchain recreation of VulkanApp                   *)
(* (src/VulkanApp.cpp).  The single control thread is modelled by a        *)
(* program counter pc that walks Run -> InitVulkan -> MainLoop ->          *)
(* DrawFrame / RecreateSwapChain / CleanupSwapChain -> CleanUp; the GPU    *)
(* is a second process that completes queue submissions (GpuComplete).     *)
(* Window events are delivered only inside glfwPollEvents/glfwWaitEvents.  *)
(***************************************************************************)
EXTENDS Integers, Sequences, FiniteSets, TLC

(* ------------------------------ constants ------------------------------ *)

\* Render_constants::g_maxFramesInFlight
MAX_FRAMES_IN_FLIGHT == 2

\* the value of a null handle
VK_NULL_HANDLE == 0

\* <cstdlib>: the statuses main returns
EXIT_SUCCESS == 0
EXIT_FAILURE == 1

(* ------------------------------- bounds -------------------------------- *)

\* largest number of images the driver returns for one swapchain
MaxImages == 2

\* the value at which the count of swapchain creations stops counting (the
\* number of creations in a run is unbounded)
MaxChains == 2

\* the value at which the count of a semaphore's pending signals, and of the
\* waits queued ahead of their signal, stops counting
MaxPending == 2

(* ------------------------------- state --------------------------------- *)

VARIABLES
    pc,                      \* position of the control thread
    rcReturn,                \* where RecreateSwapChain returns to
    csReturn,                \* where CleanupSwapChain returns to
    initialised,             \* InitVulkan has finished
    winW, winH,              \* framebuffer size of the window (glfwGetFramebufferSize)
    shouldClose,             \* glfwWindowShouldClose
    width, height,           \* locals of RecreateSwapChain
    sameQueue,               \* m_graphicsQueue and m_presentQueue are the same queue
    m_currentFrame,
    m_framebufferResized,
    m_vFences,               \* per slot: is the fence signalled
    m_vImagesInFlight,       \* per image index: VK_NULL_HANDLE or a fence handle
    m_vImageAvailableSemaphores, \* per slot: signals raised and not yet waited for
    m_vRenderFinishedSemaphores, \* per slot: the same, -1 when the wait came first
    imageIndex,              \* local of DrawFrame
    result,                  \* local of DrawFrame
    inFlight,                \* submissions the graphics queue has not completed
    m_currentSwapChain,
    m_oldSwapChain,
    m_vSwapChainImages,
    m_vSwapChainImageViews,
    m_renderPass,
    m_graphicsPipeline,
    m_vSwapChainFramebuffers,
    m_vCommandBuffers,
    chainsCreated,           \* number of vkCreateSwapchainKHR calls, up to MaxChains
    live,                    \* the objects that exist on the device, by kind
    hist,                    \* observations of the current run (what the calls did)
    exception,               \* what() of the exception in flight, "" if none
    exitStatus,              \* the status main returned, Running before it returns
    cerr,                    \* the lines written to std::cerr
    call,                    \* a helper function under test and its arguments
    ret                      \* the value that helper returned

vars == << pc, rcReturn, csReturn, initialised, winW, winH, shouldClose, width,
           height, sameQueue, m_currentFrame, m_framebufferResized, m_vFences,
           m_vImagesInFlight, imageIndex, result, inFlight, m_currentSwapChain,
           m_oldSwapChain, m_vSwapChainImages, m_vSwapChainImageViews,
           m_renderPass, m_graphicsPipeline, m_vSwapChainFramebuffers,
           m_vCommandBuffers, chainsCreated, live, hist, exception, exitStatus,
           cerr, call, ret, m_vImageAvailableSemaphores,
           m_vRenderFinishedSemaphores >>

windowVars == << winW, winH, shouldClose >>
localVars  == << width, height, imageIndex, result >>
syncVars   == << m_currentFrame, m_vFences, m_vImagesInFlight, inFlight >>
chainVars  == << m_currentSwapChain, m_oldSwapChain, m_vSwapChainImages,
                 m_vSwapChainImageViews, m_renderPass, m_graphicsPipeline,
                 m_vSwapChainFramebuffers, m_vCommandBuffers, chainsCreated, live >>
ctlVars    == << rcReturn, csReturn, initialised, sameQueue >>
mainVars   == << exitStatus, cerr, call, ret >>
semVars    == << m_vImageAvailableSemaphores, m_vRenderFinishedSemaphores >>

Slots == 0 .. (MAX_FRAMES_IN_FLIGHT - 1)

\* one dimension of the window's framebuffer as the code tests it: 0, or 1
\* for any non-zero number of pixels (two different non-zero sizes are told
\* apart only by the resize event that leads from one to the other)
Dims == {0, 1}

\* the handle of m_vFences[f]
FenceOf(f) == f + 1

FenceHandles == { FenceOf(f) : f \in Slots }

Range(s) == { s[i] : i \in 1 .. Len(s) }

\* a result that is neither success nor suboptimal nor out-of-date
OtherErrors == { "VK_ERROR_DEVICE_LOST" }

(* --------------------------- the constructor --------------------------- *)

\* main has not returned
Running == -1

\* no helper function is under test
NoCall == [ fn |-> "none" ]

\* no submission and no presentation made by the DrawFrame call under way
NoSubmission   == [ made |-> FALSE, wait |-> 0, signal |-> 0, index |-> 0 ]
NoPresentation == [ made |-> FALSE, wait |-> 0, index |-> 0 ]

\* no DrawFrame call whose state at entry is remembered
NoEntry == [ taken |-> FALSE, flag |-> FALSE, tracker |-> << >>, fences |-> << >> ]

NoHist == [ callSlot |-> 0, prevSlot |-> 0, prevEnd |-> "none", entry |-> NoEntry,
            submitted |-> NoSubmission, presented |-> NoPresentation,
            nRebuild |-> 0, nSubmit |-> 0, nPresent |-> 0,
            nAcquire |-> 0, nQueueSubmit |-> 0, runReturned |-> FALSE,
            resizedAtPresent |-> FALSE, idleSinceSubmit |-> TRUE,
            rcOldChain |-> 0, oldAliveAtCreate |-> FALSE, createInfoOld |-> 0 ]

NoLive == [ swapChains |-> {}, imageViews |-> {}, renderPasses |-> {},
            pipelines |-> {}, framebuffers |-> {}, commandBuffers |-> {} ]

\* VulkanApp::VulkanApp(), and main before it calls Run
Constructed ==
    /\ pc = "InitWindow"
    /\ rcReturn = "none"
    /\ csReturn = "none"
    /\ initialised = FALSE
    /\ winW = 0
    /\ winH = 0
    /\ shouldClose = FALSE
    /\ width = 0
    /\ height = 0
    /\ m_currentFrame = 0
    /\ m_framebufferResized = FALSE
    /\ m_vFences = << >>
    /\ m_vImagesInFlight = << >>
    /\ m_vImageAvailableSemaphores = << >>
    /\ m_vRenderFinishedSemaphores = << >>
    /\ imageIndex = 0
    /\ result = "VK_SUCCESS"
    /\ inFlight = << >>
    /\ m_currentSwapChain = VK_NULL_HANDLE
    /\ m_oldSwapChain = VK_NULL_HANDLE
    /\ m_vSwapChainImages = << >>
    /\ m_vSwapChainImageViews = << >>
    /\ m_renderPass = VK_NULL_HANDLE
    /\ m_graphicsPipeline = VK_NULL_HANDLE
    /\ m_vSwapChainFramebuffers = << >>
    /\ m_vCommandBuffers = << >>
    /\ chainsCreated = 0
    /\ live = NoLive
    /\ hist = NoHist
    /\ exception = ""
    /\ exitStatus = Running
    /\ cerr = << >>

\* a run of the program on a device whose graphics and present queue are the
\* same queue or two queues
Init ==
    /\ Constructed
    /\ sameQueue \in BOOLEAN
    /\ call = NoCall
    /\ ret = NoCall

(* ------------------------------ exceptions ----------------------------- *)

\* throw std::runtime_error(what): control leaves Run for the handler of main
Throw(what) ==
    /\ pc' = "Fatal"
    /\ exception' = what

\* control goes on to the statement at label l, nothing is thrown
Goto(l) ==
    /\ pc' = l
    /\ UNCHANGED exception

(* ------------------------------ Run: set-up ---------------------------- *)

\* VulkanApp::InitWindow: the window is created with a non-zero framebuffer
InitWindow ==
    /\ pc = "InitWindow"
    /\ winW' = 1
    /\ winH' = 1
    /\ pc' = "InitVulkan"
    /\ UNCHANGED << shouldClose, localVars, syncVars, chainVars, ctlVars,
                    m_framebufferResized, hist,
                    mainVars, semVars, exception >>

\* VulkanApp::InitVulkan up to CreateLogicalDevice: instance, surface, device
InitVulkan ==
    /\ pc = "InitVulkan"
    /\ pc' = "CreateSwapChain"
    /\ UNCHANGED << windowVars, localVars, syncVars, chainVars, ctlVars,
                    m_framebufferResized, hist,
                    mainVars, semVars, exception >>

(* -------------------------- building the chain ------------------------- *)

\* the handle vkCreateSwapchainKHR writes to m_currentSwapChain: a value other
\* than the handle of the chain that was current before (the driver may reuse
\* the value of a handle destroyed earlier)
NewSwapChainHandle == IF m_currentSwapChain = 1 THEN 2 ELSE 1

\* VulkanApp::CreateSwapChain: a new chain with the images the driver returns
CreateSwapChain ==
    /\ pc = "CreateSwapChain"
    /\ \E n \in 1 .. MaxImages :
          LET h == NewSwapChainHandle IN
          /\ hist' = [ hist EXCEPT !.createInfoOld = m_oldSwapChain,
                                   !.oldAliveAtCreate =
                                       hist.rcOldChain \in live.swapChains ]
          /\ m_currentSwapChain' = h
          /\ chainsCreated' = IF chainsCreated < MaxChains THEN chainsCreated + 1
                                                           ELSE chainsCreated
          /\ live' = [ live EXCEPT !.swapChains = @ \cup {h} ]
          /\ m_vSwapChainImages' = [ i \in 1 .. n |-> [ chain |-> h, index |-> i - 1 ] ]
    /\ pc' = "CreateImageViews"
    /\ UNCHANGED << windowVars, localVars, syncVars, ctlVars, m_framebufferResized,
                    m_oldSwapChain, m_vSwapChainImageViews, m_renderPass,
                    m_graphicsPipeline, m_vSwapChainFramebuffers, m_vCommandBuffers,
                    mainVars, semVars, exception >>

\* VulkanApp::CreateImageViews: one view per chain image, or a throw
CreateImageViews ==
    /\ pc = "CreateImageViews"
    /\ \/ /\ m_vSwapChainImageViews' =
                [ i \in 1 .. Len(m_vSwapChainImages) |-> [ image |-> m_vSwapChainImages[i] ] ]
          /\ live' = [ live EXCEPT !.imageViews = @ \cup Range(m_vSwapChainImageViews') ]
          /\ Goto("CreateRenderPass")
       \/ /\ Throw("Failed to create image views!")
          /\ UNCHANGED << m_vSwapChainImageViews, live >>
    /\ UNCHANGED << windowVars, localVars, syncVars, ctlVars, m_framebufferResized,
                    m_currentSwapChain, m_oldSwapChain, m_vSwapChainImages,
                    m_renderPass, m_graphicsPipeline, m_vSwapChainFramebuffers,
                    m_vCommandBuffers, chainsCreated, hist,
                    mainVars, semVars >>

\* VulkanApp::CreateRenderPass
CreateRenderPass ==
    /\ pc = "CreateRenderPass"
    /\ \/ /\ m_renderPass' = m_currentSwapChain
          /\ live' = [ live EXCEPT !.renderPasses = @ \cup {m_renderPass'} ]
          /\ Goto("CreateGraphicsPipeline")
       \/ /\ Throw("Failed to create render pass!")
          /\ UNCHANGED << m_renderPass, live >>
    /\ UNCHANGED << windowVars, localVars, syncVars, ctlVars, m_framebufferResized,
                    m_currentSwapChain, m_oldSwapChain, m_vSwapChainImages,
                    m_vSwapChainImageViews, m_graphicsPipeline,
                    m_vSwapChainFramebuffers, m_vCommandBuffers, chainsCreated, hist,
                    mainVars, semVars >>

\* VulkanApp::CreateGraphicsPipeline: shaders read, layout and pipeline created
CreateGraphicsPipeline ==
    /\ pc = "CreateGraphicsPipeline"
    /\ \/ /\ m_graphicsPipeline' = m_currentSwapChain
          /\ live' = [ live EXCEPT !.pipelines = @ \cup {m_graphicsPipeline'} ]
          /\ Goto("CreateFramebuffers")
       \/ /\ \E what \in { "Failed to open file!",
                                "Failed to create shader module!",
                                "Failed to create pipeline layout!",
                                "Failed to create graphics pipeline!" } : Throw(what)
          /\ UNCHANGED << m_graphicsPipeline, live >>
    /\ UNCHANGED << windowVars, localVars, syncVars, ctlVars, m_framebufferResized,
                    m_currentSwapChain, m_oldSwapChain, m_vSwapChainImages,
                    m_vSwapChainImageViews, m_renderPass,
                    m_vSwapChainFramebuffers, m_vCommandBuffers, chainsCreated, hist,
                    mainVars, semVars >>

\* the framebuffer CreateFramebuffers makes for position i
FramebufferAt(i) ==
    [ attachment |-> m_vSwapChainImageViews[i], renderPass |-> m_renderPass ]

\* VulkanApp::CreateFramebuffers: one framebuffer per image view
CreateFramebuffers ==
    /\ pc = "CreateFramebuffers"
    /\ \/ /\ m_vSwapChainFramebuffers' =
                [ i \in 1 .. Len(m_vSwapChainImageViews) |-> FramebufferAt(i) ]
          /\ live' = [ live EXCEPT !.framebuffers = @ \cup Range(m_vSwapChainFramebuffers') ]
          /\ Goto(IF initialised THEN "CreateCommandBuffers" ELSE "CreateCommandPool")
       \/ /\ Throw("Failed to create framebuffer!")
          /\ UNCHANGED << m_vSwapChainFramebuffers, live >>
    /\ UNCHANGED << windowVars, localVars, syncVars, ctlVars, m_framebufferResized,
                    m_currentSwapChain, m_oldSwapChain, m_vSwapChainImages,
                    m_vSwapChainImageViews, m_renderPass, m_graphicsPipeline,
                    m_vCommandBuffers, chainsCreated, hist,
                    mainVars, semVars >>

\* VulkanApp::CreateCommandPool (InitVulkan only)
CreateCommandPool ==
    /\ pc = "CreateCommandPool"
    /\ \/ Goto("CreateCommandBuffers")
       \/ Throw("Failed to create command pool!")
    /\ UNCHANGED << windowVars, localVars, syncVars, chainVars, ctlVars,
                    m_framebufferResized, hist,
                    mainVars, semVars >>

\* the number of command buffers CreateCommandBuffers allocates
CommandBufferCount == Len(m_vSwapChainFramebuffers)

\* a CreateCommandBuffers that records every buffer against the first framebuffer
RecordingAtFirst(i) ==
    [ framebuffer |-> m_vSwapChainFramebuffers[1],
      renderPass  |-> m_renderPass,
      pipeline    |-> m_graphicsPipeline ]

\* the recording CreateCommandBuffers makes for position i
RecordingAt(i) ==
    [ framebuffer |-> m_vSwapChainFramebuffers[i],
      renderPass  |-> m_renderPass,
      pipeline    |-> m_graphicsPipeline ]

\* a CreateCommandBuffers that records at the first build only: a rebuild keeps
\* the recordings it finds
CreateCommandBuffersOnce ==
    /\ pc = "CreateCommandBuffers"
    /\ m_vCommandBuffers' = IF initialised
                               THEN m_vCommandBuffers
                               ELSE [ i \in 1 .. CommandBufferCount |-> RecordingAt(i) ]
    /\ live' = [ live EXCEPT !.commandBuffers = @ \cup Range(m_vCommandBuffers') ]
    /\ Goto(IF initialised THEN rcReturn ELSE "CreateSyncObjects")
    /\ UNCHANGED << windowVars, localVars, syncVars, ctlVars, m_framebufferResized,
                    m_currentSwapChain, m_oldSwapChain, m_vSwapChainImages,
                    m_vSwapChainImageViews, m_renderPass, m_graphicsPipeline,
                    m_vSwapChainFramebuffers, chainsCreated, hist,
                    mainVars, semVars >>

\* VulkanApp::CreateCommandBuffers: one recording per framebuffer
CreateCommandBuffers ==
    /\ pc = "CreateCommandBuffers"
    /\ \/ /\ m_vCommandBuffers' = [ i \in 1 .. CommandBufferCount |-> RecordingAt(i) ]
          /\ live' = [ live EXCEPT !.commandBuffers = @ \cup Range(m_vCommandBuffers') ]
          /\ Goto(IF initialised THEN rcReturn ELSE "CreateSyncObjects")
       \/ /\ \E what \in { "Failed to allocate command buffers!",
                                "Failed to begin recording command buffer!",
                                "Failed to record command buffer!" } : Throw(what)
          /\ UNCHANGED << m_vCommandBuffers, live >>
    /\ UNCHANGED << windowVars, localVars, syncVars, ctlVars, m_framebufferResized,
                    m_currentSwapChain, m_oldSwapChain, m_vSwapChainImages,
                    m_vSwapChainImageViews, m_renderPass, m_graphicsPipeline,
                    m_vSwapChainFramebuffers, chainsCreated, hist,
                    mainVars, semVars >>

\* VulkanApp::CreateSyncObjects: fences start signalled, the tracker starts null,
\* the semaphores start unsignalled
CreateSyncObjects ==
    /\ pc = "CreateSyncObjects"
    /\ \/ /\ m_vFences' = [ i \in 1 .. MAX_FRAMES_IN_FLIGHT |-> TRUE ]
          /\ m_vImagesInFlight' =
                [ i \in 1 .. Len(m_vSwapChainImageViews) |-> VK_NULL_HANDLE ]
          /\ m_vImageAvailableSemaphores' = [ i \in 1 .. MAX_FRAMES_IN_FLIGHT |-> 0 ]
          /\ m_vRenderFinishedSemaphores' = [ i \in 1 .. MAX_FRAMES_IN_FLIGHT |-> 0 ]
          /\ initialised' = TRUE
          /\ Goto("MainLoop")
       \/ /\ Throw("Failed to create semaphores for a frame!")
          /\ UNCHANGED << m_vFences, m_vImagesInFlight, initialised, semVars >>
    /\ UNCHANGED << windowVars, localVars, chainVars, rcReturn, csReturn, sameQueue,
                    m_currentFrame, inFlight, m_framebufferResized, hist,
                    mainVars >>

(* ------------------------------ the window ----------------------------- *)

\* VulkanApp::FrameBufferResizeCallBack
FrameBufferResizeCallBack == m_framebufferResized' = TRUE

\* the window system delivers its pending events: the framebuffer may get a
\* new size (every size event runs the resize callback) and the user may ask
\* to close the window
DeliverEvents ==
    \E w \in Dims, h \in Dims, resized \in BOOLEAN, close \in BOOLEAN :
       /\ (w # winW \/ h # winH) => resized
       /\ winW' = w
       /\ winH' = h
       /\ IF resized THEN FrameBufferResizeCallBack
                     ELSE UNCHANGED m_framebufferResized
       /\ shouldClose' = (shouldClose \/ close)

(* ------------------------------- MainLoop ------------------------------ *)

\* VulkanApp::MainLoop: the loop condition
MainLoop ==
    /\ pc = "MainLoop"
    /\ pc' = IF shouldClose THEN "MainLoopWaitIdle" ELSE "PollEvents"
    /\ UNCHANGED << windowVars, localVars, syncVars, chainVars, ctlVars,
                    m_framebufferResized, hist,
                    mainVars, semVars, exception >>

\* VulkanApp::MainLoop: glfwPollEvents, then DrawFrame is entered
PollEvents ==
    /\ pc = "PollEvents"
    /\ DeliverEvents
    /\ hist' = [ hist EXCEPT !.callSlot = m_currentFrame, !.nRebuild = 0,
                             !.nSubmit = 0, !.nPresent = 0, !.nAcquire = 0,
                             !.nQueueSubmit = 0, !.resizedAtPresent = FALSE,
                             !.submitted = NoSubmission,
                             !.presented = NoPresentation,
                             !.entry = [ taken   |-> TRUE,
                                         flag    |-> m_framebufferResized',
                                         tracker |-> m_vImagesInFlight,
                                         fences  |-> m_vFences ] ]
    /\ pc' = "DF_WaitFence"
    /\ UNCHANGED << localVars, syncVars, chainVars, ctlVars,
                    mainVars, semVars, exception >>

(* ------------------------------- the GPU ------------------------------- *)

\* vkWaitForFences(.., UINT64_MAX) returns once the fence is signalled
WaitForFences(h) == m_vFences[h]

\* a DrawFrame that forgets vkResetFences
ResetFencesForgotten(f) == m_vFences

\* vkResetFences on the fence of slot f
ResetFences(f) == [ m_vFences EXCEPT ![FenceOf(f)] = FALSE ]

\* a signal operation on the semaphore of slot f
SignalSemaphore(sems, f) ==
    [ sems EXCEPT ![f + 1] = IF @ < MaxPending THEN @ + 1 ELSE @ ]

\* a wait operation on the semaphore of slot f: it consumes one signal, the
\* count is negative while the signal it waits for is still to come
WaitSemaphore(sems, f) ==
    [ sems EXCEPT ![f + 1] = IF @ > -MaxPending THEN @ - 1 ELSE @ ]

\* the graphics queue finishes its oldest submission: it signals the semaphore
\* of pSignalSemaphores and the fence
GpuComplete ==
    /\ inFlight # << >>
    /\ m_vFences' = [ m_vFences EXCEPT ![FenceOf(Head(inFlight).slot)] = TRUE ]
    /\ m_vRenderFinishedSemaphores' =
          SignalSemaphore(m_vRenderFinishedSemaphores, Head(inFlight).signal)
    /\ inFlight' = Tail(inFlight)
    /\ UNCHANGED << pc, windowVars, localVars, chainVars, ctlVars, m_currentFrame,
                    m_vImagesInFlight, m_framebufferResized, hist,
                    mainVars, m_vImageAvailableSemaphores, exception >>

(* ------------------------------ DrawFrame ------------------------------ *)

\* a handle that is no object of the device
InvalidHandle == -1

\* imageIndex is an index of m_vImagesInFlight
InBounds == imageIndex < Len(m_vImagesInFlight)

\* what reading m_vImagesInFlight[imageIndex] yields; a read past the end of
\* the vector is undefined and yields whatever lies there
TrackerRead ==
    IF InBounds THEN { m_vImagesInFlight[imageIndex + 1] }
                ELSE { VK_NULL_HANDLE, InvalidHandle } \cup FenceHandles

\* m_vImagesInFlight[imageIndex] = m_vFences[m_currentFrame]; a write past the
\* end of the vector lands outside it
MarkImageInFlight ==
    IF InBounds THEN [ m_vImagesInFlight EXCEPT ![imageIndex + 1] = FenceOf(m_currentFrame) ]
                ELSE m_vImagesInFlight

\* &m_vCommandBuffers[imageIndex]
CommandBufferFor(i) ==
    IF i + 1 \in DOMAIN m_vCommandBuffers THEN m_vCommandBuffers[i + 1]
                                          ELSE InvalidHandle

\* a test after present that forgets the resize flag
PresentNeedsRebuildNoFlag(r) ==
    r = "VK_ERROR_OUT_OF_DATE_KHR" \/ r = "VK_SUBOPTIMAL_KHR"

\* the test made after vkQueuePresentKHR returned r
PresentNeedsRebuild(r) ==
    r = "VK_ERROR_OUT_OF_DATE_KHR" \/ r = "VK_SUBOPTIMAL_KHR" \/ m_framebufferResized

\* a DrawFrame that leaves the slot index as it is
NextFrameStuck(f) == f

\* (m_currentFrame + 1) % MAX_FRAMES_IN_FLIGHT
NextFrame(f) == (f + 1) % MAX_FRAMES_IN_FLIGHT

\* the bookkeeping of a call of RecreateSwapChain
EnterRecreate(h) ==
    [ h EXCEPT !.nRebuild = @ + 1, !.rcOldChain = m_currentSwapChain ]

\* DrawFrame: wait for the fence of the current slot
DF_WaitFence ==
    /\ pc = "DF_WaitFence"
    /\ WaitForFences(FenceOf(m_currentFrame))
    /\ hist' = [ hist EXCEPT !.prevSlot = 0, !.prevEnd = "none" ]
    /\ pc' = "DF_Acquire"
    /\ UNCHANGED << windowVars, localVars, syncVars, chainVars, ctlVars,
                    m_framebufferResized,
                    mainVars, semVars, exception >>

\* a test after acquire that lets every result pass
AcquireFailedNever(r) == FALSE

\* the test made after vkAcquireNextImageKHR returned r, out-of-date excluded
AcquireFailed(r) == r # "VK_SUCCESS" /\ r # "VK_SUBOPTIMAL_KHR"

\* the semaphore handed to vkAcquireNextImageKHR, as the slot it belongs to
AcquireSemaphore == m_currentFrame

\* DrawFrame: vkAcquireNextImageKHR and the tests of its result; an acquire
\* that yields an image signals its semaphore
DF_Acquire ==
    /\ pc = "DF_Acquire"
    /\ \E r \in { "VK_SUCCESS", "VK_SUBOPTIMAL_KHR", "VK_ERROR_OUT_OF_DATE_KHR" }
                   \cup OtherErrors,
          idx \in 0 .. (Len(m_vSwapChainImages) - 1) :
          LET h == [ hist EXCEPT !.nAcquire = @ + 1 ] IN
          /\ result' = r
          /\ IF r = "VK_ERROR_OUT_OF_DATE_KHR"
                THEN /\ Goto("RC_GetSize")
                     /\ rcReturn' = "DF_EarlyReturn"
                     /\ hist' = EnterRecreate(h)
                     /\ UNCHANGED << imageIndex, m_vImageAvailableSemaphores >>
                ELSE IF AcquireFailed(r)
                THEN /\ Throw("Failed to acquire swap chain image!")
                     /\ hist' = [ h EXCEPT !.entry = NoEntry ]
                     /\ UNCHANGED << imageIndex, rcReturn,
                                     m_vImageAvailableSemaphores >>
                ELSE /\ Goto("DF_WaitImage")
                     /\ imageIndex' = idx
                     /\ m_vImageAvailableSemaphores' =
                           SignalSemaphore(m_vImageAvailableSemaphores,
                                           AcquireSemaphore)
                     /\ hist' = [ h EXCEPT !.entry = NoEntry ]
                     /\ UNCHANGED rcReturn
    /\ UNCHANGED << windowVars, width, height, syncVars, chainVars, csReturn,
                    initialised, sameQueue, m_framebufferResized,
                    mainVars, m_vRenderFinishedSemaphores >>

\* an early return that advances the slot index like the end of DrawFrame
DF_EarlyReturnAdvancing ==
    /\ pc = "DF_EarlyReturn"
    /\ hist' = [ hist EXCEPT !.prevSlot = hist.callSlot, !.prevEnd = "early" ]
    /\ m_currentFrame' = (m_currentFrame + 1) % MAX_FRAMES_IN_FLIGHT
    /\ imageIndex' = 0
    /\ result' = "VK_SUCCESS"
    /\ pc' = "MainLoop"
    /\ UNCHANGED << windowVars, width, height, chainVars, ctlVars, m_vFences,
                    m_vImagesInFlight, inFlight, m_framebufferResized,
                    mainVars, semVars, exception >>

\* an early return that takes the resize as handled and clears the flag
DF_EarlyReturnClearsFlag ==
    /\ pc = "DF_EarlyReturn"
    /\ hist' = [ hist EXCEPT !.prevSlot = hist.callSlot, !.prevEnd = "early" ]
    /\ m_framebufferResized' = FALSE
    /\ imageIndex' = 0
    /\ result' = "VK_SUCCESS"
    /\ pc' = "MainLoop"
    /\ UNCHANGED << windowVars, width, height, syncVars, chainVars, ctlVars,
                    mainVars, semVars, exception >>

\* DrawFrame: the return after the rebuild on out-of-date
DF_EarlyReturn ==
    /\ pc = "DF_EarlyReturn"
    /\ hist' = [ hist EXCEPT !.prevSlot = hist.callSlot, !.prevEnd = "early" ]
    /\ imageIndex' = 0
    /\ result' = "VK_SUCCESS"
    /\ pc' = "MainLoop"
    /\ UNCHANGED << windowVars, width, height, syncVars, chainVars, ctlVars,
                    m_framebufferResized,
                    mainVars, semVars, exception >>

\* DrawFrame: wait for the fence recorded for the acquired image, if any
DF_WaitImage ==
    /\ pc = "DF_WaitImage"
    /\ \E v \in TrackerRead :
          \/ /\ v = VK_NULL_HANDLE
             /\ pc' = "DF_MarkImage"
          \/ /\ v \in FenceHandles
             /\ WaitForFences(v)
             /\ pc' = "DF_MarkImage"
          \/ /\ v = InvalidHandle
             /\ pc' = "Crashed"
    /\ UNCHANGED << windowVars, localVars, syncVars, chainVars, ctlVars,
                    m_framebufferResized, hist,
                    mainVars, semVars, exception >>

\* DrawFrame: record the fence of the current slot for the acquired image
DF_MarkImage ==
    /\ pc = "DF_MarkImage"
    /\ m_vImagesInFlight' = MarkImageInFlight
    /\ \/ pc' = "DF_Submit"
       \/ /\ ~InBounds
          /\ pc' = "Crashed"
    /\ UNCHANGED << windowVars, localVars, chainVars, ctlVars, m_currentFrame,
                    m_vFences, inFlight, m_framebufferResized, hist,
                    mainVars, semVars, exception >>

\* VkSemaphore waitSemaphores[] = { m_vImageAvailableSemaphores[m_currentFrame] }
waitSemaphores == m_currentFrame

\* a DrawFrame that signals the render-finished semaphore of the other slot
signalSemaphoresOfNextSlot == NextFrame(m_currentFrame)

\* VkSemaphore signalSemaphores[] = { m_vRenderFinishedSemaphores[m_currentFrame] }
signalSemaphores == m_currentFrame

\* DrawFrame: vkResetFences, vkQueueSubmit; an accepted submission waits for
\* waitSemaphores and will signal signalSemaphores
DF_Submit ==
    /\ pc = "DF_Submit"
    /\ m_vFences' = ResetFences(m_currentFrame)
    /\ \/ /\ inFlight' = Append(inFlight, [ slot  |-> m_currentFrame,
                                            image |-> m_vSwapChainImages[imageIndex + 1],
                                            commandBuffer |-> CommandBufferFor(imageIndex),
                                            wait   |-> waitSemaphores,
                                            signal |-> signalSemaphores ])
          /\ m_vImageAvailableSemaphores' =
                WaitSemaphore(m_vImageAvailableSemaphores, waitSemaphores)
          /\ hist' = [ hist EXCEPT !.nSubmit = @ + 1, !.nQueueSubmit = @ + 1,
                                   !.idleSinceSubmit = FALSE,
                                   !.submitted = [ made   |-> TRUE,
                                                   wait   |-> waitSemaphores,
                                                   signal |-> signalSemaphores,
                                                   index  |-> imageIndex ] ]
          /\ Goto("DF_WaitSubmitted")
       \/ /\ Throw("Failed to submit draw command buffer!")
          /\ hist' = [ hist EXCEPT !.nQueueSubmit = @ + 1 ]
          /\ UNCHANGED << inFlight, m_vImageAvailableSemaphores >>
    /\ UNCHANGED << windowVars, localVars, chainVars, ctlVars, m_currentFrame,
                    m_vImagesInFlight, m_framebufferResized,
                    mainVars, m_vRenderFinishedSemaphores >>

\* DrawFrame: the second wait on the fence recorded for the image, before present
DF_WaitSubmitted ==
    /\ pc = "DF_WaitSubmitted"
    /\ \E v \in TrackerRead :
          \/ /\ v = VK_NULL_HANDLE
             /\ pc' = "DF_Present"
          \/ /\ v \in FenceHandles
             /\ WaitForFences(v)
             /\ pc' = "DF_Present"
          \/ /\ v = InvalidHandle
             /\ pc' = "Crashed"
    /\ UNCHANGED << windowVars, localVars, syncVars, chainVars, ctlVars,
                    m_framebufferResized, hist,
                    mainVars, semVars, exception >>

\* DrawFrame: vkQueuePresentKHR and the tests of its result; the request handed
\* to the queue waits for signalSemaphores (presentInfo.pWaitSemaphores)
DF_Present ==
    /\ pc = "DF_Present"
    /\ \E r \in { "VK_SUCCESS", "VK_SUBOPTIMAL_KHR", "VK_ERROR_OUT_OF_DATE_KHR" }
                   \cup OtherErrors :
          LET h == [ hist EXCEPT !.nPresent = @ + 1,
                                 !.resizedAtPresent = m_framebufferResized,
                                 !.presented = [ made  |-> TRUE,
                                                 wait  |-> signalSemaphores,
                                                 index |-> imageIndex ] ] IN
          /\ result' = r
          /\ m_vRenderFinishedSemaphores' =
                WaitSemaphore(m_vRenderFinishedSemaphores, signalSemaphores)
          /\ IF PresentNeedsRebuild(r)
                THEN /\ m_framebufferResized' = FALSE
                     /\ Goto("RC_GetSize")
                     /\ rcReturn' = "DF_QueueWaitIdle"
                     /\ hist' = EnterRecreate(h)
                ELSE IF r # "VK_SUCCESS"
                THEN /\ Throw("Failed to present swap chain image!")
                     /\ hist' = h
                     /\ UNCHANGED << m_framebufferResized, rcReturn >>
                ELSE /\ Goto("DF_QueueWaitIdle")
                     /\ hist' = h
                     /\ UNCHANGED << m_framebufferResized, rcReturn >>
    /\ UNCHANGED << windowVars, width, height, imageIndex, syncVars, chainVars,
                    csReturn, initialised, sameQueue,
                    mainVars, m_vImageAvailableSemaphores >>

\* DrawFrame: vkQueueWaitIdle(m_presentQueue) waits for the submissions made to
\* that queue
DF_QueueWaitIdle ==
    /\ pc = "DF_QueueWaitIdle"
    /\ sameQueue => inFlight = << >>
    /\ pc' = "DF_Advance"
    /\ UNCHANGED << windowVars, localVars, syncVars, chainVars, ctlVars,
                    m_framebufferResized, hist,
                    mainVars, semVars, exception >>

\* DrawFrame: advance the slot index and return
DF_Advance ==
    /\ pc = "DF_Advance"
    /\ m_currentFrame' = NextFrame(m_currentFrame)
    /\ hist' = [ hist EXCEPT !.prevSlot = hist.callSlot, !.prevEnd = "full",
                             !.submitted = NoSubmission,
                             !.presented = NoPresentation ]
    /\ imageIndex' = 0
    /\ result' = "VK_SUCCESS"
    /\ pc' = "MainLoop"
    /\ UNCHANGED << windowVars, width, height, chainVars, ctlVars, m_vFences,
                    m_vImagesInFlight, inFlight, m_framebufferResized,
                    mainVars, semVars, exception >>

(* --------------------------- RecreateSwapChain ------------------------- *)

\* the loop condition of RecreateSwapChain
Minimised(w, h) == w = 0 \/ h = 0

\* RecreateSwapChain: the first glfwGetFramebufferSize and the loop test
RC_GetSize ==
    /\ pc = "RC_GetSize"
    /\ width' = winW
    /\ height' = winH
    /\ pc' = IF Minimised(width', height') THEN "RC_LoopGetSize" ELSE "RC_DeviceWaitIdle"
    /\ UNCHANGED << windowVars, imageIndex, result, syncVars, chainVars, ctlVars,
                    m_framebufferResized, hist,
                    mainVars, semVars, exception >>

\* RecreateSwapChain: glfwGetFramebufferSize inside the loop
RC_LoopGetSize ==
    /\ pc = "RC_LoopGetSize"
    /\ width' = winW
    /\ height' = winH
    /\ pc' = "RC_WaitEvents"
    /\ UNCHANGED << windowVars, imageIndex, result, syncVars, chainVars, ctlVars,
                    m_framebufferResized, hist,
                    mainVars, semVars, exception >>

\* RecreateSwapChain: glfwWaitEvents inside the loop, then the loop test on
\* the sizes read before it
RC_WaitEvents ==
    /\ pc = "RC_WaitEvents"
    /\ DeliverEvents
    /\ pc' = IF Minimised(width, height) THEN "RC_LoopGetSize" ELSE "RC_DeviceWaitIdle"
    /\ UNCHANGED << localVars, syncVars, chainVars, ctlVars, hist,
                    mainVars, semVars, exception >>

\* a RecreateSwapChain that goes on to CleanupSwapChain without vkDeviceWaitIdle
RC_NoDeviceWaitIdle ==
    /\ pc = "RC_DeviceWaitIdle"
    /\ csReturn' = "CreateSwapChain"
    /\ pc' = "CS_Framebuffers"
    /\ width' = 0
    /\ height' = 0
    /\ UNCHANGED << windowVars, imageIndex, result, syncVars, chainVars, rcReturn,
                    initialised, sameQueue, m_framebufferResized, hist,
                    mainVars, semVars, exception >>

\* RecreateSwapChain: vkDeviceWaitIdle returns once no submission is outstanding
RC_DeviceWaitIdle ==
    /\ pc = "RC_DeviceWaitIdle"
    /\ inFlight = << >>
    /\ hist' = [ hist EXCEPT !.idleSinceSubmit = TRUE ]
    /\ csReturn' = "CreateSwapChain"
    /\ pc' = "CS_Framebuffers"
    /\ width' = 0
    /\ height' = 0
    /\ UNCHANGED << windowVars, imageIndex, result, syncVars, chainVars, rcReturn,
                    initialised, sameQueue, m_framebufferResized,
                    mainVars, semVars, exception >>

(* --------------------------- CleanupSwapChain -------------------------- *)

\* a CleanupSwapChain that leaves the framebuffers alone
CS_FramebuffersKept ==
    /\ pc = "CS_Framebuffers"
    /\ pc' = "CS_CommandBuffers"
    /\ UNCHANGED << windowVars, localVars, syncVars, chainVars, ctlVars,
                    m_framebufferResized, hist, mainVars, semVars, exception >>

\* CleanupSwapChain: vkDestroyFramebuffer for every framebuffer
CS_Framebuffers ==
    /\ pc = "CS_Framebuffers"
    /\ live' = [ live EXCEPT !.framebuffers = @ \ Range(m_vSwapChainFramebuffers) ]
    /\ pc' = "CS_CommandBuffers"
    /\ UNCHANGED << windowVars, localVars, syncVars, ctlVars, m_framebufferResized,
                    m_currentSwapChain, m_oldSwapChain, m_vSwapChainImages,
                    m_vSwapChainImageViews, m_renderPass, m_graphicsPipeline,
                    m_vSwapChainFramebuffers, m_vCommandBuffers, chainsCreated, hist,
                    mainVars, semVars, exception >>

\* CleanupSwapChain: vkFreeCommandBuffers
CS_CommandBuffers ==
    /\ pc = "CS_CommandBuffers"
    /\ live' = [ live EXCEPT !.commandBuffers = @ \ Range(m_vCommandBuffers) ]
    /\ pc' = "CS_Pipeline"
    /\ UNCHANGED << windowVars, localVars, syncVars, ctlVars, m_framebufferResized,
                    m_currentSwapChain, m_oldSwapChain, m_vSwapChainImages,
                    m_vSwapChainImageViews, m_renderPass, m_graphicsPipeline,
                    m_vSwapChainFramebuffers, m_vCommandBuffers, chainsCreated, hist,
                    mainVars, semVars, exception >>

\* CleanupSwapChain: vkDestroyPipeline, vkDestroyPipelineLayout
CS_Pipeline ==
    /\ pc = "CS_Pipeline"
    /\ live' = [ live EXCEPT !.pipelines = @ \ {m_graphicsPipeline} ]
    /\ pc' = "CS_RenderPass"
    /\ UNCHANGED << windowVars, localVars, syncVars, ctlVars, m_framebufferResized,
                    m_currentSwapChain, m_oldSwapChain, m_vSwapChainImages,
                    m_vSwapChainImageViews, m_renderPass, m_graphicsPipeline,
                    m_vSwapChainFramebuffers, m_vCommandBuffers, chainsCreated, hist,
                    mainVars, semVars, exception >>

\* CleanupSwapChain: vkDestroyRenderPass
CS_RenderPass ==
    /\ pc = "CS_RenderPass"
    /\ live' = [ live EXCEPT !.renderPasses = @ \ {m_renderPass} ]
    /\ pc' = "CS_ImageViews"
    /\ UNCHANGED << windowVars, localVars, syncVars, ctlVars, m_framebufferResized,
                    m_currentSwapChain, m_oldSwapChain, m_vSwapChainImages,
                    m_vSwapChainImageViews, m_renderPass, m_graphicsPipeline,
                    m_vSwapChainFramebuffers, m_vCommandBuffers, chainsCreated, hist,
                    mainVars, semVars, exception >>

\* CleanupSwapChain: vkDestroyImageView for every image view
CS_ImageViews ==
    /\ pc = "CS_ImageViews"
    /\ live' = [ live EXCEPT !.imageViews = @ \ Range(m_vSwapChainImageViews) ]
    /\ pc' = "CS_SwapChains"
    /\ UNCHANGED << windowVars, localVars, syncVars, ctlVars, m_framebufferResized,
                    m_currentSwapChain, m_oldSwapChain, m_vSwapChainImages,
                    m_vSwapChainImageViews, m_renderPass, m_graphicsPipeline,
                    m_vSwapChainFramebuffers, m_vCommandBuffers, chainsCreated, hist,
                    mainVars, semVars, exception >>

\* CleanupSwapChain: vkDestroySwapchainKHR of m_oldSwapChain and of
\* m_currentSwapChain, then the return to the caller
CS_SwapChains ==
    /\ pc = "CS_SwapChains"
    /\ live' = [ live EXCEPT !.swapChains = @ \ {m_oldSwapChain, m_currentSwapChain} ]
    /\ pc' = csReturn
    /\ UNCHANGED << windowVars, localVars, syncVars, ctlVars, m_framebufferResized,
                    m_currentSwapChain, m_oldSwapChain, m_vSwapChainImages,
                    m_vSwapChainImageViews, m_renderPass, m_graphicsPipeline,
                    m_vSwapChainFramebuffers, m_vCommandBuffers, chainsCreated, hist,
                    mainVars, semVars, exception >>

(* ------------------------------- shutdown ------------------------------ *)

\* VulkanApp::MainLoop: vkDeviceWaitIdle after the loop, then CleanUp is entered
MainLoopWaitIdle ==
    /\ pc = "MainLoopWaitIdle"
    /\ inFlight = << >>
    /\ hist' = [ hist EXCEPT !.idleSinceSubmit = TRUE ]
    /\ csReturn' = "CleanUp"
    /\ pc' = "CS_Framebuffers"
    /\ UNCHANGED << windowVars, localVars, syncVars, chainVars, rcReturn,
                    initialised, sameQueue, m_framebufferResized,
                    mainVars, semVars, exception >>

\* VulkanApp::CleanUp after CleanupSwapChain: sync objects, pool, device,
\* surface, instance and window are destroyed; Run returns
CleanUp ==
    /\ pc = "CleanUp"
    /\ hist' = [ hist EXCEPT !.runReturned = TRUE ]
    /\ pc' = "Exit"
    /\ UNCHANGED << windowVars, localVars, syncVars, chainVars, ctlVars,
                    m_framebufferResized, mainVars, semVars, exception >>

(* --------------------------------- main -------------------------------- *)

\* the return of main destroys app: the implicit destructor of VulkanApp
\* destroys the vectors (no Vulkan object is destroyed), the locals are gone
DestroyApp ==
    /\ m_vFences' = << >>
    /\ m_vImagesInFlight' = << >>
    /\ m_vImageAvailableSemaphores' = << >>
    /\ m_vRenderFinishedSemaphores' = << >>
    /\ m_vSwapChainImages' = << >>
    /\ m_vSwapChainImageViews' = << >>
    /\ m_vSwapChainFramebuffers' = << >>
    /\ m_vCommandBuffers' = << >>
    /\ imageIndex' = 0
    /\ result' = "VK_SUCCESS"
    /\ width' = 0
    /\ height' = 0
    /\ UNCHANGED << windowVars, ctlVars, m_currentFrame, m_framebufferResized,
                    inFlight, m_currentSwapChain, m_oldSwapChain, m_renderPass,
                    m_graphicsPipeline, chainsCreated, live, hist, call, ret >>

\* main: app.Run() has returned, return EXIT_SUCCESS
MainReturn ==
    /\ pc = "Exit"
    /\ exitStatus' = EXIT_SUCCESS
    /\ pc' = "Exited"
    /\ DestroyApp
    /\ UNCHANGED << exception, cerr >>

\* a handler that reports the exception and returns EXIT_SUCCESS all the same
MainCatchReturnsSuccess ==
    /\ pc = "Fatal"
    /\ cerr' = Append(cerr, exception)
    /\ exitStatus' = EXIT_SUCCESS
    /\ pc' = "Exited"
    /\ DestroyApp
    /\ UNCHANGED exception

\* main: catch (const std::exception& E): E.what() goes to std::cerr, return
\* EXIT_FAILURE
MainCatch ==
    /\ pc = "Fatal"
    /\ cerr' = Append(cerr, exception)
    /\ exitStatus' = EXIT_FAILURE
    /\ pc' = "Exited"
    /\ DestroyApp
    /\ UNCHANGED exception

(* ---------------------------- specification ---------------------------- *)

Next ==
    \/ InitWindow
    \/ InitVulkan
    \/ CreateSwapChain
    \/ CreateImageViews
    \/ CreateRenderPass
    \/ CreateGraphicsPipeline
    \/ CreateFramebuffers
    \/ CreateCommandPool
    \/ CreateCommandBuffers
    \/ CreateSyncObjects
    \/ MainLoop
    \/ PollEvents
    \/ GpuComplete
    \/ DF_WaitFence
    \/ DF_Acquire
    \/ DF_EarlyReturn
    \/ DF_WaitImage
    \/ DF_MarkImage
    \/ DF_Submit
    \/ DF_WaitSubmitted
    \/ DF_Present
    \/ DF_QueueWaitIdle
    \/ DF_Advance
    \/ RC_GetSize
    \/ RC_LoopGetSize
    \/ RC_WaitEvents
    \/ RC_DeviceWaitIdle
    \/ CS_Framebuffers
    \/ CS_CommandBuffers
    \/ CS_Pipeline
    \/ CS_RenderPass
    \/ CS_ImageViews
    \/ CS_SwapChains
    \/ MainLoopWaitIdle
    \/ CleanUp
    \/ MainReturn
    \/ MainCatch

Spec == Init /\ [][Next]_vars

\* the steps of the control thread that do not wait for the window system:
\* every action but glfwWaitEvents, which returns only when an event arrives,
\* and the completion of work by the GPU
Control ==
    \/ InitWindow \/ InitVulkan \/ CreateSwapChain \/ CreateImageViews
    \/ CreateRenderPass \/ CreateGraphicsPipeline \/ CreateFramebuffers
    \/ CreateCommandPool \/ CreateCommandBuffers \/ CreateSyncObjects
    \/ MainLoop \/ PollEvents \/ DF_WaitFence \/ DF_Acquire \/ DF_EarlyReturn
    \/ DF_WaitImage \/ DF_MarkImage \/ DF_Submit \/ DF_WaitSubmitted
    \/ DF_Present \/ DF_QueueWaitIdle \/ DF_Advance \/ RC_GetSize
    \/ RC_LoopGetSize \/ RC_DeviceWaitIdle \/ CS_Framebuffers
    \/ CS_CommandBuffers \/ CS_Pipeline \/ CS_RenderPass \/ CS_ImageViews
    \/ CS_SwapChains \/ MainLoopWaitIdle \/ CleanUp \/ MainReturn \/ MainCatch

\* the thread runs whenever it is not blocked, and the GPU eventually
\* completes the work submitted to it
FairSpec == Spec /\ WF_vars(Control) /\ WF_vars(GpuComplete)

(* ------------------ device selection and queue families ----------------- *)

\* largest number of queue families of a device
MaxFamilies == 3

\* largest number of physical devices
MaxDevices == 2

\* the number of bits of the model's uint32_t: the model checker's integers
\* end at 2^31 - 1, so the unsigned type is modelled narrower than it is, and
\* wide enough for every extent, image dimension and score of the inputs
UintWidth == 16

\* the largest uint32_t of the model, the sentinel of a surface's current extent
UINT32_MAX == 2 ^ UintWidth - 1

\* static_cast<uint32_t>, and uint32_t arithmetic
ToUint32(x) == x % (UINT32_MAX + 1)

\* QueueFamilyIndices{}: two empty std::optional (an optional is a sequence of
\* at most one value)
NoIndices == [ graphicsFamily |-> << >>, presentFamily |-> << >> ]

\* QueueFamilyIndices::IsComplete
IsComplete(indices) ==
    indices.graphicsFamily # << >> /\ indices.presentFamily # << >>

\* the loop of FindQueueFamilies from family i on; a queue family is its
\* VK_QUEUE_GRAPHICS_BIT and the presentSupport the surface reports for it.
\* queried is the number of families the loop has looked at when it ends.
RECURSIVE FindQueueFamiliesFrom(_, _, _)
FindQueueFamiliesFrom(queueFamilies, i, indices) ==
    IF i >= Len(queueFamilies)
    THEN [ indices |-> indices, queried |-> i ]
    ELSE LET queueFamily == queueFamilies[i + 1]
             afterPresent ==
                 IF queueFamily.presentSupport
                 THEN [ indices EXCEPT !.presentFamily = << i >> ]
                 ELSE indices
             afterGraphics ==
                 IF queueFamily.graphics
                 THEN [ afterPresent EXCEPT !.graphicsFamily = << i >> ]
                 ELSE afterPresent
         IN  IF IsComplete(afterGraphics)
             THEN [ indices |-> afterGraphics, queried |-> i + 1 ]
             ELSE FindQueueFamiliesFrom(queueFamilies, i + 1, afterGraphics)

\* VulkanApp::FindQueueFamilies
FindQueueFamilies(queueFamilies) ==
    FindQueueFamiliesFrom(queueFamilies, 0, NoIndices)

\* VulkanApp::DeviceSuitable. A device is its queue families, whether it has
\* every required extension, whether its lists of surface formats and of present
\* modes are empty, its geometryShader feature, whether its type is
\* VK_PHYSICAL_DEVICE_TYPE_DISCRETE_GPU, and its limit maxImageDimension2D.
DeviceSuitable(device) ==
    LET INDICES == FindQueueFamilies(device.queueFamilies).indices
        EXTENSIONS_SUPPORTED == device.extensionsSupported
        swapChainSupportAdequate ==
            IF EXTENSIONS_SUPPORTED
            THEN ~device.formatsEmpty /\ ~device.presentModesEmpty
            ELSE FALSE
    IN  IsComplete(INDICES) /\ EXTENSIONS_SUPPORTED /\ swapChainSupportAdequate

\* a RateDevice that forgets the bonus of a discrete GPU
RateDeviceNoBonus(device) ==
    IF ~device.geometryShader \/ ~DeviceSuitable(device)
    THEN 0
    ELSE ToUint32(device.maxImageDimension2D)

\* VulkanApp::RateDevice
RateDevice(device) ==
    IF ~device.geometryShader \/ ~DeviceSuitable(device)
    THEN 0
    ELSE LET bonus == IF device.discrete THEN 1000 ELSE 0
         IN  ToUint32(ToUint32(0 + bonus) + device.maxImageDimension2D)

\* std::multimap::insert: the pair goes behind the pairs whose key is not
\* greater than its key
Insert(candidates, pair) ==
    LET k == Cardinality({ j \in 1 .. Len(candidates) :
                              candidates[j].score <= pair.score })
    IN  SubSeq(candidates, 1, k) \o << pair >>
            \o SubSeq(candidates, k + 1, Len(candidates))

\* the loop of PickPhysicalDevice: the devices from position i on are rated
\* and inserted
RECURSIVE RateAll(_, _, _)
RateAll(devices, i, candidates) ==
    IF i > Len(devices)
    THEN candidates
    ELSE RateAll(devices, i + 1,
                 Insert(candidates, [ score |-> RateDevice(devices[i]), device |-> i ]))

\* DMC::UTILS::ReportError(condition, message): the fatal error it raises, ""
\* when the condition holds
ReportError(condition, message) == IF condition THEN "" ELSE message

\* VulkanApp::PickPhysicalDevice from the rating loop on; a device handle is
\* the position of the device in the enumeration
PickPhysicalDevice(devices) ==
    LET candidates == RateAll(devices, 1, << >>)
        rbegin == candidates[Len(candidates)]
        fatal == ReportError(rbegin.score > 0, "Failed to find suitable GPU!")
    IN  [ candidates |-> candidates,
          fatal |-> fatal,
          m_physicalDevice |-> IF fatal = "" THEN rbegin.device ELSE VK_NULL_HANDLE ]

(* ------------------------- swap chain settings ------------------------- *)

\* largest number of present modes of a surface
MaxModes == 3

\* largest image count of a surface
MaxImageCount == 4

\* VkPresentModeKHR
PresentModes ==
    { "VK_PRESENT_MODE_IMMEDIATE_KHR", "VK_PRESENT_MODE_MAILBOX_KHR",
      "VK_PRESENT_MODE_FIFO_KHR", "VK_PRESENT_MODE_FIFO_RELAXED_KHR" }

\* the loop of ChooseSwapPresentMode from position i on
RECURSIVE ChooseSwapPresentModeFrom(_, _)
ChooseSwapPresentModeFrom(availableModes, i) ==
    IF i > Len(availableModes)
    THEN "VK_PRESENT_MODE_FIFO_KHR"
    ELSE LET MODE == availableModes[i]
         IN  IF MODE = "VK_PRESENT_MODE_MAILBOX_KHR"
             THEN MODE
             ELSE ChooseSwapPresentModeFrom(availableModes, i + 1)

\* a ChooseSwapPresentMode that looks at the first available mode only
ChooseSwapPresentModeFirstOnly(availableModes) ==
    IF availableModes # << >> /\ availableModes[1] = "VK_PRESENT_MODE_MAILBOX_KHR"
    THEN availableModes[1]
    ELSE "VK_PRESENT_MODE_FIFO_KHR"

\* VulkanApp::ChooseSwapPresentMode
ChooseSwapPresentMode(availableModes) ==
    ChooseSwapPresentModeFrom(availableModes, 1)

\* a clamp that forgets the upper bound
ClampLow(v, lo, hi) == IF v < lo THEN lo ELSE v

\* std::clamp
Clamp(v, lo, hi) == IF v < lo THEN lo ELSE IF hi < v THEN hi ELSE v

\* a ChooseSwapExtent that returns the framebuffer size whatever the current
\* extent of the surface
ChooseSwapExtentAlwaysWindow(capabilities, framebuffer) ==
    [ width  |-> Clamp(ToUint32(framebuffer.width),
                       capabilities.minImageExtent.width,
                       capabilities.maxImageExtent.width),
      height |-> Clamp(ToUint32(framebuffer.height),
                       capabilities.minImageExtent.height,
                       capabilities.maxImageExtent.height) ]

\* VulkanApp::ChooseSwapExtent; framebuffer is what glfwGetFramebufferSize
\* reports
ChooseSwapExtent(capabilities, framebuffer) ==
    IF capabilities.currentExtent.width # UINT32_MAX
    THEN capabilities.currentExtent
    ELSE LET actualExtent == [ width  |-> ToUint32(framebuffer.width),
                               height |-> ToUint32(framebuffer.height) ]
         IN  [ width  |-> Clamp(actualExtent.width,
                                capabilities.minImageExtent.width,
                                capabilities.maxImageExtent.width),
               height |-> Clamp(actualExtent.height,
                                capabilities.minImageExtent.height,
                                capabilities.maxImageExtent.height) ]

\* an image count that is not held under the maximum
RequestedImageCountUnclamped(capabilities) ==
    ToUint32(capabilities.minImageCount + 1)

\* CreateSwapChain: the image count it requests (createInfo.minImageCount)
RequestedImageCount(capabilities) ==
    LET imageCount == ToUint32(capabilities.minImageCount + 1)
    IN  IF capabilities.maxImageCount > 0 /\ imageCount > capabilities.maxImageCount
        THEN capabilities.maxImageCount
        ELSE imageCount

(* ------------------------ the helpers on their own --------------------- *)

\* every variable but the value a call returns
calleeVars == << pc, rcReturn, csReturn, initialised, winW, winH, shouldClose,
                 width, height, sameQueue, m_currentFrame, m_framebufferResized,
                 m_vFences, m_vImagesInFlight, imageIndex, result, inFlight,
                 m_currentSwapChain, m_oldSwapChain, m_vSwapChainImages,
                 m_vSwapChainImageViews, m_renderPass, m_graphicsPipeline,
                 m_vSwapChainFramebuffers, m_vCommandBuffers, chainsCreated,
                 live, hist, exception, exitStatus, cerr, call,
                 m_vImageAvailableSemaphores, m_vRenderFinishedSemaphores >>

\* the sequences over S of a length from lo to hi
SeqsOf(S, lo, hi) == UNION { [ 1 .. n -> S ] : n \in lo .. hi }

\* the queue families a device can report
QueueFamilyLists ==
    SeqsOf([ graphics : BOOLEAN, presentSupport : BOOLEAN ], 0, MaxFamilies)

\* the devices of the enumeration: a device lacks at most one of the things
\* RateDevice asks for
Devices ==
    { d \in [ queueFamilies : { << [ graphics |-> TRUE, presentSupport |-> FALSE ] >>,
                                << [ graphics |-> TRUE, presentSupport |-> FALSE ],
                                   [ graphics |-> FALSE, presentSupport |-> TRUE ] >> },
              extensionsSupported : BOOLEAN,
              formatsEmpty : BOOLEAN,
              presentModesEmpty : BOOLEAN,
              geometryShader : BOOLEAN,
              discrete : BOOLEAN,
              maxImageDimension2D : { 2048, 4096 } ] :
        Cardinality({ lack \in { "families", "extensions", "formats", "modes", "shader" } :
                        \/ lack = "families" /\ Len(d.queueFamilies) = 1
                        \/ lack = "extensions" /\ ~d.extensionsSupported
                        \/ lack = "formats" /\ d.formatsEmpty
                        \/ lack = "modes" /\ d.presentModesEmpty
                        \/ lack = "shader" /\ ~d.geometryShader }) <= 1 }

\* vkEnumeratePhysicalDevices: at least one device (deviceCount != 0)
DeviceLists == SeqsOf(Devices, 1, MaxDevices)

\* the present modes of a surface: at least one, none twice
PresentModeLists ==
    { l \in SeqsOf(PresentModes, 1, MaxModes) :
        \A i, j \in 1 .. Len(l) : l[i] = l[j] => i = j }

\* the extents of a surface: the current extent is the sentinel or a size, and
\* the smallest extent is within the largest
ExtentCapabilities ==
    [ currentExtent  : [ width : { UINT32_MAX, 800 }, height : { UINT32_MAX, 600 } ],
      minImageExtent : [ width : { 1, 5 }, height : { 1, 5 } ],
      maxImageExtent : [ width : { 5, 4096 }, height : { 5, 4096 } ] ]

\* glfwGetFramebufferSize
FramebufferSizes == [ width : { 0, 5, 7000 }, height : { 0, 5, 7000 } ]

\* the image counts of a surface: at least one image, and a maximum of 0 (no
\* maximum) or not under the minimum
ImageCountCapabilities ==
    { c \in [ minImageCount : 1 .. MaxImageCount, maxImageCount : 0 .. MaxImageCount ] :
        c.maxImageCount = 0 \/ c.minImageCount <= c.maxImageCount }

\* a constructed application and one call of a helper with its arguments
HelperInit ==
    /\ Constructed
    /\ sameQueue = TRUE
    /\ ret = NoCall
    /\ \/ \E queueFamilies \in QueueFamilyLists :
              call = [ fn |-> "FindQueueFamilies", queueFamilies |-> queueFamilies ]
       \/ \E devices \in DeviceLists :
              call = [ fn |-> "PickPhysicalDevice", devices |-> devices ]
       \/ \E availableModes \in PresentModeLists :
              call = [ fn |-> "ChooseSwapPresentMode", availableModes |-> availableModes ]
       \/ \E capabilities \in ExtentCapabilities, framebuffer \in FramebufferSizes :
              call = [ fn |-> "ChooseSwapExtent", capabilities |-> capabilities,
                       framebuffer |-> framebuffer ]
       \/ \E capabilities \in ImageCountCapabilities :
              call = [ fn |-> "CreateSwapChain", capabilities |-> capabilities ]

\* FindQueueFamilies returns
CallFindQueueFamilies ==
    /\ call.fn = "FindQueueFamilies"
    /\ ret.fn = "none"
    /\ ret' = [ fn |-> call.fn, value |-> FindQueueFamilies(call.queueFamilies) ]
    /\ UNCHANGED calleeVars

\* PickPhysicalDevice returns or ends in the fatal error; score is what
\* RateDevice returned for each device
CallPickPhysicalDevice ==
    /\ call.fn = "PickPhysicalDevice"
    /\ ret.fn = "none"
    /\ ret' = [ fn |-> call.fn,
                score |-> [ i \in 1 .. Len(call.devices) |-> RateDevice(call.devices[i]) ],
                value |-> PickPhysicalDevice(call.devices) ]
    /\ UNCHANGED calleeVars

\* ChooseSwapPresentMode returns
CallChooseSwapPresentMode ==
    /\ call.fn = "ChooseSwapPresentMode"
    /\ ret.fn = "none"
    /\ ret' = [ fn |-> call.fn, value |-> ChooseSwapPresentMode(call.availableModes) ]
    /\ UNCHANGED calleeVars

\* ChooseSwapExtent returns
CallChooseSwapExtent ==
    /\ call.fn = "ChooseSwapExtent"
    /\ ret.fn = "none"
    /\ ret' = [ fn |-> call.fn,
                value |-> ChooseSwapExtent(call.capabilities, call.framebuffer) ]
    /\ UNCHANGED calleeVars

\* CreateSwapChain has filled in the image count of its request
CallRequestedImageCount ==
    /\ call.fn = "CreateSwapChain"
    /\ ret.fn = "none"
    /\ ret' = [ fn |-> call.fn, value |-> RequestedImageCount(call.capabilities) ]
    /\ UNCHANGED calleeVars

HelperNext ==
    \/ CallFindQueueFamilies
    \/ CallPickPhysicalDevice
    \/ CallChooseSwapPresentMode
    \/ CallChooseSwapExtent
    \/ CallRequestedImageCount

HelperSpec == HelperInit /\ [][HelperNext]_vars

(* ------------------------- positions of the thread --------------------- *)

CleanupPCs == { "CS_Framebuffers", "CS_CommandBuffers", "CS_Pipeline",
                "CS_RenderPass", "CS_ImageViews", "CS_SwapChains" }

CreatePCs == { "CreateSwapChain", "CreateImageViews", "CreateRenderPass",
               "CreateGraphicsPipeline", "CreateFramebuffers", "CreateCommandPool",
               "CreateCommandBuffers", "CreateSyncObjects" }

WaitLoopPCs == { "RC_GetSize", "RC_LoopGetSize", "RC_WaitEvents", "RC_DeviceWaitIdle" }

\* the thread is inside RecreateSwapChain
InRecreate ==
    \/ pc \in WaitLoopPCs
    \/ pc \in CleanupPCs /\ csReturn = "CreateSwapChain"
    \/ pc \in CreatePCs /\ initialised

\* the thread is inside RecreateSwapChain, past the wait loop: the teardown
\* and construction steps
InRebuildWork ==
    \/ pc \in CleanupPCs /\ csReturn = "CreateSwapChain"
    \/ pc \in CreatePCs /\ initialised

\* the chain is completely built and the thread is in the frame loop
ChainBuilt ==
    /\ initialised
    /\ pc \in { "MainLoop", "PollEvents", "DF_WaitFence", "DF_Acquire", "DF_EarlyReturn",
                "DF_WaitImage", "DF_MarkImage", "DF_Submit", "DF_WaitSubmitted",
                "DF_Present", "DF_QueueWaitIdle", "DF_Advance", "MainLoopWaitIdle" }

\* between two DrawFrame calls, up to the first statement of the next one
CallBoundary == pc \in { "MainLoop", "PollEvents", "DF_WaitFence" }

\* the submissions outstanding on slot f
OutstandingOn(f) == { i \in DOMAIN inFlight : inFlight[i].slot = f }

(* -------------------------------- claims ------------------------------- *)

\* the slots whose fence is unsignalled
UnsignalledSlots == { f \in Slots : m_vFences # << >> /\ ~m_vFences[FenceOf(f)] }

\* C1: at any instant at most MAX_FRAMES_IN_FLIGHT slots have an unsignalled
\* fence and at most that many submissions are outstanding; no slot has two
\* outstanding submissions, and DrawFrame reaches its submit for a slot only
\* when nothing submitted earlier on that slot is still outstanding.
C1_InFlightBound ==
    /\ Cardinality(UnsignalledSlots) <= MAX_FRAMES_IN_FLIGHT
    /\ Len(inFlight) <= MAX_FRAMES_IN_FLIGHT
    /\ \A f \in Slots : Cardinality(OutstandingOn(f)) <= 1
    /\ pc = "DF_Submit" => OutstandingOn(m_currentFrame) = {}

\* C1 witness: slot 0 is in use again after slot 1 was used (a third cycle),
\* its new submission is outstanding and its fence unsignalled
C1_Witness ==
    /\ pc = "DF_WaitSubmitted"
    /\ m_currentFrame = 0
    /\ FenceOf(1) \in Range(m_vImagesInFlight)
    /\ OutstandingOn(0) # {}
    /\ UnsignalledSlots = {0}

\* C2: whatever the number of chain images and the order in which acquire
\* hands out image indices, no two submissions that target the same chain
\* image are outstanding at the same time.
C2_ImageExclusive ==
    \A i, j \in DOMAIN inFlight : i # j => inFlight[i].image # inFlight[j].image

\* C3: a DrawFrame call whose acquire reports out-of-date rebuilds the chain
\* exactly once, submits nothing, presents nothing and returns with the slot
\* index it was entered with, which is the slot index of the next call.
C3_AcquireOutOfDate ==
    /\ (InRecreate /\ rcReturn = "DF_EarlyReturn") =>
          /\ hist.nRebuild = 1
          /\ hist.nSubmit = 0
          /\ hist.nPresent = 0
    /\ pc = "DF_EarlyReturn" =>
          /\ hist.nRebuild = 1
          /\ hist.nSubmit = 0
          /\ hist.nPresent = 0
          /\ m_currentFrame = hist.callSlot
    /\ (CallBoundary /\ hist.prevEnd = "early") => m_currentFrame = hist.prevSlot

\* C3 witness: the call after an early return is entered on slot 1, the slot
\* of the call that returned early
C3_Witness ==
    /\ pc = "DF_WaitFence"
    /\ hist.prevEnd = "early"
    /\ hist.prevSlot = 1
    /\ m_currentFrame = 1
    /\ chainsCreated = 2

\* the result of the present of the current call asks for a rebuild
PresentTrigger ==
    \/ result \in { "VK_ERROR_OUT_OF_DATE_KHR", "VK_SUBOPTIMAL_KHR" }
    \/ hist.resizedAtPresent

\* C4: a DrawFrame call that reaches the present step presents exactly once;
\* after it the chain is rebuilt if and only if present reported out-of-date
\* or suboptimal or the resize flag was raised; the flag is false when that
\* rebuild starts, the call rebuilds once, and the slot index is advanced when
\* the call returns.
C4_PresentRebuild ==
    /\ (pc \in { "DF_QueueWaitIdle", "DF_Advance" }
           \/ (InRecreate /\ rcReturn = "DF_QueueWaitIdle")) => hist.nPresent = 1
    /\ pc \in { "DF_QueueWaitIdle", "DF_Advance" } =>
          /\ hist.nRebuild = (IF PresentTrigger THEN 1 ELSE 0)
          /\ m_currentFrame = hist.callSlot
    /\ (pc = "Fatal" /\ hist.nPresent = 1 /\ hist.nRebuild = 0) => ~PresentTrigger
    /\ (InRecreate /\ rcReturn = "DF_QueueWaitIdle") =>
          /\ PresentTrigger
          /\ hist.nRebuild = 1
    /\ (pc = "RC_GetSize" /\ rcReturn = "DF_QueueWaitIdle") => ~m_framebufferResized
    /\ (CallBoundary /\ hist.prevEnd = "full") =>
          m_currentFrame = (hist.prevSlot + 1) % MAX_FRAMES_IN_FLIGHT

\* C4 witness: a call whose present succeeded with the resize flag raised has
\* rebuilt the chain once and is about to advance the slot index
C4_Witness ==
    /\ pc = "DF_Advance"
    /\ result = "VK_SUCCESS"
    /\ hist.resizedAtPresent
    /\ hist.nPresent = 1
    /\ hist.nRebuild = 1
    /\ ~m_framebufferResized

\* C5: whatever the resize flag, a present result other than success,
\* out-of-date and suboptimal ends DrawFrame in a fatal error with no rebuild.
C5_OtherPresentResultFatal ==
    (hist.nPresent = 1 /\ result \in OtherErrors) =>
        /\ pc = "Fatal"
        /\ hist.nRebuild = 0

\* C6 as stated: every DrawFrame call uses the slot after the slot of the call
\* before it, whatever that call did.
C6_SlotCycles ==
    (CallBoundary /\ hist.prevEnd # "none") =>
        m_currentFrame = (hist.prevSlot + 1) % MAX_FRAMES_IN_FLIGHT

\* C6 amended: a call that reaches the end of DrawFrame, rebuild at present or
\* not, is followed by a call on the next slot of the cycle; a call that
\* returns early on acquire out-of-date is followed by a call on the same slot.
C6_SlotAdvance ==
    /\ m_currentFrame \in Slots
    /\ (CallBoundary /\ hist.prevEnd = "full") =>
          m_currentFrame = (hist.prevSlot + 1) % MAX_FRAMES_IN_FLIGHT
    /\ (CallBoundary /\ hist.prevEnd = "early") => m_currentFrame = hist.prevSlot

\* C6 witness: the call on slot 1 rebuilt the chain at present and returned;
\* the slot index has wrapped to 0
C6_Witness ==
    /\ pc = "MainLoop"
    /\ hist.prevEnd = "full"
    /\ hist.prevSlot = 1
    /\ hist.nPresent = 1
    /\ hist.nRebuild = 1
    /\ m_currentFrame = 0

\* C7: no teardown or construction step of a rebuild runs while the window's
\* framebuffer is zero in either dimension.
C7_NoRebuildWhileMinimised ==
    InRebuildWork => ~Minimised(winW, winH)

\* C8: whenever CleanupSwapChain is about to destroy or has just destroyed a
\* chain resource, a device-idle wait has completed since the last queue
\* submission and no submission is outstanding.
C8_IdleBeforeDestroy ==
    pc \in CleanupPCs =>
        /\ hist.idleSinceSubmit
        /\ inFlight = << >>

\* C8 witness: the rebuild of a call that has submitted is destroying the chain
C8_Witness ==
    /\ pc = "CS_SwapChains"
    /\ csReturn = "CreateSwapChain"
    /\ hist.nSubmit = 1
    /\ hist.idleSinceSubmit

\* C9: in a rebuild the new swapchain is created while the chain it replaces
\* still exists, and that chain is passed to the creation as oldSwapchain.
C9_OldChainOutlivesCreate ==
    (initialised /\ pc = "CreateImageViews") =>
        /\ hist.oldAliveAtCreate
        /\ hist.createInfoOld = hist.rcOldChain

\* C10: once the chain is built, first or rebuilt, there are as many image
\* views, framebuffers and command recordings as chain images of the current
\* chain, and recording i targets framebuffer i, whose attachment is view i of
\* image i.
C10_IndexAligned ==
    ChainBuilt =>
        LET n == Len(m_vSwapChainImages) IN
        /\ Len(m_vSwapChainImageViews) = n
        /\ Len(m_vSwapChainFramebuffers) = n
        /\ Len(m_vCommandBuffers) = n
        /\ \A i \in 1 .. n :
              /\ m_vSwapChainImages[i] = [ chain |-> m_currentSwapChain, index |-> i - 1 ]
              /\ m_vSwapChainImageViews[i].image = m_vSwapChainImages[i]
              /\ m_vSwapChainFramebuffers[i].attachment = m_vSwapChainImageViews[i]
              /\ m_vCommandBuffers[i].framebuffer = m_vSwapChainFramebuffers[i]

\* C10 witness: a frame is about to be submitted on a rebuilt chain that has
\* more images than the first chain had
C10_Witness ==
    /\ pc = "DF_Submit"
    /\ chainsCreated = 2
    /\ Len(m_vSwapChainImages) > Len(m_vImagesInFlight)
    /\ Len(m_vCommandBuffers) = Len(m_vSwapChainImages)

\* C11: assuming the GPU eventually completes submitted work, every DrawFrame
\* call gets past each of its fence waits: the wait on the fence of its slot,
\* the wait on the fence recorded for the acquired image, and the same wait
\* before present.
C11_FenceWaitsReturn ==
    /\ (pc = "DF_WaitFence") ~> (pc = "DF_Acquire")
    /\ (pc = "DF_WaitImage") ~> (pc = "DF_MarkImage")
    /\ (pc = "DF_WaitSubmitted") ~> (pc = "DF_Present")

\* C12 as stated: whenever the resize flag is raised and the main loop keeps
\* running, the flag is eventually cleared.
C12_FlagEventuallyCleared ==
    ([]<>(pc = "PollEvents")) => (m_framebufferResized ~> ~m_framebufferResized)

\* C12 amended: the resize flag is raised only where window events are
\* delivered (by the resize callback) and cleared only by the present step of
\* DrawFrame; whenever it is raised and the main loop keeps running, a call of
\* RecreateSwapChain begins afterwards; and it is eventually cleared provided
\* DrawFrame calls keep reaching their present step.
C12_ResizeFlag ==
    /\ [][ /\ (~m_framebufferResized /\ m_framebufferResized') =>
                 pc \in { "PollEvents", "RC_WaitEvents" }
           /\ (m_framebufferResized /\ ~m_framebufferResized') =>
                 (pc = "DF_Present" /\ pc' = "RC_GetSize") ]_vars
    /\ ([]<>(pc = "PollEvents")) => (m_framebufferResized ~> (pc = "RC_GetSize"))
    /\ ([]<>(pc = "DF_Present")) => (m_framebufferResized ~> ~m_framebufferResized)

\* C12 witness: a present made with the flag raised has cleared the flag and
\* the rebuild that follows, the second of the run, is beginning
C12_Witness ==
    /\ pc = "RC_GetSize"
    /\ rcReturn = "DF_QueueWaitIdle"
    /\ hist.resizedAtPresent
    /\ ~m_framebufferResized
    /\ result = "VK_SUCCESS"
    /\ chainsCreated = 2

\* C13: a rejected queue submission, and an acquire result other than success,
\* suboptimal and out-of-date, end DrawFrame in a fatal error: the call has
\* presented nothing and rebuilt nothing, and acquired and submitted only once.
C13_FatalNoRetry ==
    /\ (hist.nAcquire = 1 /\ hist.nQueueSubmit = 0 /\ result \in OtherErrors) =>
          /\ pc = "Fatal"
          /\ exception = "Failed to acquire swap chain image!"
    /\ hist.nQueueSubmit > hist.nSubmit =>
          /\ pc \in { "Fatal", "Exited" }
          /\ exception = "Failed to submit draw command buffer!"
    /\ exception \in { "Failed to acquire swap chain image!",
                       "Failed to submit draw command buffer!" } =>
          /\ pc \in { "Fatal", "Exited" }
          /\ hist.nPresent = 0
          /\ hist.nRebuild = 0
          /\ hist.nSubmit = 0
          /\ hist.nAcquire = 1
          /\ hist.nQueueSubmit <= 1

\* C13 witness: after a complete frame on slot 0 the submission of the call on
\* slot 1 has been rejected
C13_Witness ==
    /\ pc = "Fatal"
    /\ exception = "Failed to submit draw command buffer!"
    /\ m_currentFrame = 1
    /\ hist.nQueueSubmit = 1
    /\ hist.nSubmit = 0

\* C14: main returns EXIT_SUCCESS exactly when Run has returned, with nothing
\* written to the error stream; when an exception leaves Run, main writes its
\* message as the one line on the error stream and returns a non-zero status.
C14_ExitStatus ==
    /\ pc # "Exited" => exitStatus = Running
    /\ pc = "Exited" =>
          /\ exitStatus \in { EXIT_SUCCESS, EXIT_FAILURE }
          /\ (exitStatus = EXIT_SUCCESS) <=> hist.runReturned
          /\ hist.runReturned => (exception = "" /\ cerr = << >>)
          /\ ~hist.runReturned =>
                /\ exception # ""
                /\ cerr = << exception >>
                /\ exitStatus # 0

\* C14 witness: an exception thrown by a rebuild inside the main loop has been
\* reported and the process has returned EXIT_FAILURE
C14_Witness ==
    /\ pc = "Exited"
    /\ initialised
    /\ exception = "Failed to create framebuffer!"
    /\ exitStatus = EXIT_FAILURE
    /\ Len(cerr) = 1

\* C15: when FindQueueFamilies returns, the presentation family is the lowest
\* index that supports presentation and the graphics family the lowest index
\* that supports graphics; a role no family supports is unresolved; the scan
\* has stopped at the family that resolved the second role.
C15_LowestIndices ==
    ret.fn = "FindQueueFamilies" =>
        LET queueFamilies == call.queueFamilies
            present == { i \in 0 .. Len(queueFamilies) - 1 :
                             queueFamilies[i + 1].presentSupport }
            graphics == { i \in 0 .. Len(queueFamilies) - 1 :
                              queueFamilies[i + 1].graphics }
            Lowest(S) == CHOOSE i \in S : \A j \in S : i <= j
            First(S) == IF S = { } THEN << >> ELSE << Lowest(S) >>
        IN  /\ ret.value.indices.presentFamily = First(present)
            /\ ret.value.indices.graphicsFamily = First(graphics)
            /\ ret.value.queried =
                   IF present # { } /\ graphics # { }
                   THEN (IF Lowest(present) < Lowest(graphics)
                         THEN Lowest(graphics) ELSE Lowest(present)) + 1
                   ELSE Len(queueFamilies)

\* C16: when PickPhysicalDevice has rated a non-empty list of devices, the
\* score of an unusable device is 0 and the score of a usable one is 1000 if it
\* is a discrete GPU, else 0, plus its maximum 2D image dimension; when the
\* highest score is above 0 the selected device is one with the highest score,
\* and when it is 0 the selection ends in the fatal error and selects nothing.
\* An integrated device of dimension 4096 scores 4096, a discrete one of
\* dimension 2048 scores 3048, and of the two the integrated one is selected.
C16_DeviceSelection ==
    ret.fn = "PickPhysicalDevice" =>
        LET devices == call.devices
            Usable(d) ==
                /\ d.geometryShader
                /\ \E i \in 1 .. Len(d.queueFamilies) : d.queueFamilies[i].graphics
                /\ \E i \in 1 .. Len(d.queueFamilies) : d.queueFamilies[i].presentSupport
                /\ d.extensionsSupported
                /\ ~d.formatsEmpty
                /\ ~d.presentModesEmpty
            Score(d) ==
                IF Usable(d)
                THEN (IF d.discrete THEN 1000 ELSE 0) + d.maxImageDimension2D
                ELSE 0
            highest == CHOOSE s \in { Score(devices[i]) : i \in 1 .. Len(devices) } :
                           \A i \in 1 .. Len(devices) : Score(devices[i]) <= s
            selected == ret.value.m_physicalDevice
        IN  /\ \A i \in 1 .. Len(devices) : ret.score[i] = Score(devices[i])
            /\ highest > 0 =>
                  /\ ret.value.fatal = ""
                  /\ selected \in 1 .. Len(devices)
                  /\ Score(devices[selected]) = highest
            /\ highest = 0 =>
                  /\ ret.value.fatal = "Failed to find suitable GPU!"
                  /\ selected = VK_NULL_HANDLE
            /\ \A a, b \in 1 .. Len(devices) :
                  ( /\ Len(devices) = 2 /\ a # b
                    /\ Usable(devices[a]) /\ Usable(devices[b])
                    /\ ~devices[a].discrete /\ devices[a].maxImageDimension2D = 4096
                    /\ devices[b].discrete /\ devices[b].maxImageDimension2D = 2048 )
                  => /\ ret.score[a] = 4096
                     /\ ret.score[b] = 3048
                     /\ selected = a

\* C16 witness: of a usable discrete device of dimension 2048 and a usable
\* integrated device of dimension 4096, enumerated in this order, the second has
\* been selected
C16_Witness ==
    /\ ret.fn = "PickPhysicalDevice"
    /\ Len(call.devices) = 2
    /\ DeviceSuitable(call.devices[1]) /\ call.devices[1].geometryShader
    /\ call.devices[1].discrete /\ call.devices[1].maxImageDimension2D = 2048
    /\ DeviceSuitable(call.devices[2]) /\ call.devices[2].geometryShader
    /\ ~call.devices[2].discrete /\ call.devices[2].maxImageDimension2D = 4096
    /\ ret.score = << 3048, 4096 >>
    /\ ret.value.fatal = ""
    /\ ret.value.m_physicalDevice = 2

\* C17: when ChooseSwapExtent returns, it has returned the current extent of
\* the surface unchanged if the width of the current extent is not UINT32_MAX,
\* and otherwise the framebuffer size of the window with the width clamped into
\* [minImageExtent.width, maxImageExtent.width] and the height clamped into
\* [minImageExtent.height, maxImageExtent.height].
C17_ExtentChoice ==
    ret.fn = "ChooseSwapExtent" =>
        LET capabilities == call.capabilities
            Clamped(out, in, lo, hi) ==
                /\ out \in lo .. hi
                /\ in \in lo .. hi => out = in
                /\ in < lo => out = lo
                /\ in > hi => out = hi
        IN  /\ capabilities.currentExtent.width # UINT32_MAX =>
                  ret.value = capabilities.currentExtent
            /\ capabilities.currentExtent.width = UINT32_MAX =>
                  /\ Clamped(ret.value.width, call.framebuffer.width,
                             capabilities.minImageExtent.width,
                             capabilities.maxImageExtent.width)
                  /\ Clamped(ret.value.height, call.framebuffer.height,
                             capabilities.minImageExtent.height,
                             capabilities.maxImageExtent.height)

\* C17 witness: with the sentinel as current width, a framebuffer too wide and
\* of no height has been clamped to the largest width and the smallest height
C17_Witness ==
    /\ ret.fn = "ChooseSwapExtent"
    /\ call.capabilities.currentExtent.width = UINT32_MAX
    /\ call.capabilities.minImageExtent = [ width |-> 5, height |-> 5 ]
    /\ call.capabilities.maxImageExtent = [ width |-> 4096, height |-> 4096 ]
    /\ call.framebuffer = [ width |-> 7000, height |-> 0 ]
    /\ ret.value = [ width |-> 4096, height |-> 5 ]

\* C18 as stated: with the sentinel as current width, a smallest extent of
\* (1,1), a largest extent of (4096,4096) and a framebuffer of (7000,5),
\* ChooseSwapExtent returns (4096,1).
C18_Returns4096x1 ==
    ( /\ ret.fn = "ChooseSwapExtent"
      /\ call.capabilities.currentExtent.width = UINT32_MAX
      /\ call.capabilities.minImageExtent = [ width |-> 1, height |-> 1 ]
      /\ call.capabilities.maxImageExtent = [ width |-> 4096, height |-> 4096 ]
      /\ call.framebuffer = [ width |-> 7000, height |-> 5 ] )
    => ret.value = [ width |-> 4096, height |-> 1 ]

\* C18: with the sentinel as current width, a smallest extent of (1,1), a
\* largest extent of (4096,4096) and a framebuffer of (7000,5), ChooseSwapExtent
\* returns (4096,5): the width is cut to the largest width and the height, which
\* is within the bounds, is kept.
C18_Returns4096x5 ==
    ( /\ ret.fn = "ChooseSwapExtent"
      /\ call.capabilities.currentExtent.width = UINT32_MAX
      /\ call.capabilities.minImageExtent = [ width |-> 1, height |-> 1 ]
      /\ call.capabilities.maxImageExtent = [ width |-> 4096, height |-> 4096 ]
      /\ call.framebuffer = [ width |-> 7000, height |-> 5 ] )
    => ret.value = [ width |-> 4096, height |-> 5 ]

\* C18 witness: ChooseSwapExtent has returned for these capabilities and this
\* framebuffer
C18_Witness ==
    /\ ret.fn = "ChooseSwapExtent"
    /\ call.capabilities.currentExtent =
           [ width |-> UINT32_MAX, height |-> UINT32_MAX ]
    /\ call.capabilities.minImageExtent = [ width |-> 1, height |-> 1 ]
    /\ call.capabilities.maxImageExtent = [ width |-> 4096, height |-> 4096 ]
    /\ call.framebuffer = [ width |-> 7000, height |-> 5 ]
    /\ ret.value.width = 4096

\* C19: when ChooseSwapPresentMode returns, it has returned the mailbox mode if
\* the list of available modes holds it at any position, and the FIFO mode
\* otherwise, whether the list holds the FIFO mode or not.
C19_PresentModeChoice ==
    ret.fn = "ChooseSwapPresentMode" =>
        LET availableModes == call.availableModes
        IN  ret.value =
                IF \E i \in 1 .. Len(availableModes) :
                       availableModes[i] = "VK_PRESENT_MODE_MAILBOX_KHR"
                THEN "VK_PRESENT_MODE_MAILBOX_KHR"
                ELSE "VK_PRESENT_MODE_FIFO_KHR"

\* C19 witness: for a list that holds neither the mailbox mode nor the FIFO
\* mode, the FIFO mode has been returned
C19_Witness ==
    /\ ret.fn = "ChooseSwapPresentMode"
    /\ call.availableModes =
           << "VK_PRESENT_MODE_IMMEDIATE_KHR", "VK_PRESENT_MODE_FIFO_RELAXED_KHR" >>
    /\ ret.value = "VK_PRESENT_MODE_FIFO_KHR"

\* C20: the image count CreateSwapChain requests is minImageCount + 1 when
\* maxImageCount is 0 or minImageCount + 1 is at most maxImageCount, and
\* maxImageCount otherwise; it is never above a maxImageCount that is not 0.
C20_ImageCount ==
    ret.fn = "CreateSwapChain" =>
        LET min == call.capabilities.minImageCount
            max == call.capabilities.maxImageCount
        IN  /\ ret.value = IF max = 0 \/ min + 1 <= max THEN min + 1 ELSE max
            /\ max # 0 => ret.value <= max

\* C20 witness: a surface whose smallest and largest image count are the same
\* has been asked for that count, not for one more
C20_Witness ==
    /\ ret.fn = "CreateSwapChain"
    /\ call.capabilities.minImageCount = 2
    /\ call.capabilities.maxImageCount = 2
    /\ ret.value = 2

\* C21: in CleanupSwapChain no framebuffer exists any more when the image views
\* are destroyed, and no image view and no framebuffer exists any more when the
\* swapchain is destroyed; no step ever destroys a swapchain while an image
\* view of one of its images, or a framebuffer on such a view, still exists.
C21_TeardownOrder ==
    /\ [][ /\ pc \in { "CS_ImageViews", "CS_SwapChains" } =>
                 /\ Range(m_vSwapChainFramebuffers) \cap live.framebuffers = { }
                 /\ live.framebuffers = { }
           /\ pc = "CS_SwapChains" =>
                 /\ Range(m_vSwapChainImageViews) \cap live.imageViews = { }
                 /\ live.imageViews = { }
           /\ \A h \in live.swapChains \ live'.swapChains :
                 /\ pc = "CS_SwapChains"
                 /\ \A v \in live.imageViews : v.image.chain # h
                 /\ \A fb \in live.framebuffers : fb.attachment.image.chain # h
           /\ live'.imageViews # live.imageViews =>
                 \/ pc = "CreateImageViews"
                 \/ pc = "CS_ImageViews" /\ live'.imageViews = { } ]_vars

\* C21 witness: the teardown of a rebuild has destroyed the two framebuffers
\* and the two image views of the chain and is about to destroy the chain
C21_Witness ==
    /\ pc = "CS_SwapChains"
    /\ csReturn = "CreateSwapChain"
    /\ Len(m_vSwapChainFramebuffers) = 2
    /\ Len(m_vSwapChainImageViews) = 2
    /\ live.framebuffers = { }
    /\ live.imageViews = { }
    /\ m_currentSwapChain \in live.swapChains

\* the recording, its framebuffer, its pipeline and the chain of its target
\* image exist, and they are the ones of the current chain
RecordingCurrent(cb) ==
    /\ cb \in live.commandBuffers
    /\ cb \in Range(m_vCommandBuffers)
    /\ cb.framebuffer \in live.framebuffers
    /\ cb.framebuffer \in Range(m_vSwapChainFramebuffers)
    /\ cb.pipeline \in live.pipelines
    /\ cb.pipeline = m_graphicsPipeline
    /\ cb.renderPass \in live.renderPasses
    /\ cb.framebuffer.attachment \in live.imageViews
    /\ cb.framebuffer.attachment.image.chain \in live.swapChains
    /\ cb.framebuffer.attachment.image.chain = m_currentSwapChain

\* C23: the recording DrawFrame is about to submit, and as long as the process
\* runs every recording of a submission the GPU has not completed, exists
\* together with its framebuffer, pipeline and swapchain, and these are the
\* ones of the current chain; from
\* the moment CleanupSwapChain has freed the recordings until they are recorded
\* again no recording exists, so a recording that exists was recorded after the
\* most recent build of the chain.
C23_RecordingsCurrent ==
    /\ pc = "DF_Submit" =>
          /\ imageIndex + 1 \in DOMAIN m_vCommandBuffers
          /\ RecordingCurrent(CommandBufferFor(imageIndex))
          /\ CommandBufferFor(imageIndex).framebuffer.attachment.image =
                 m_vSwapChainImages[imageIndex + 1]
    /\ \A i \in DOMAIN inFlight :
          pc # "Exited" =>
          /\ RecordingCurrent(inFlight[i].commandBuffer)
          /\ inFlight[i].commandBuffer.framebuffer.attachment.image = inFlight[i].image
    /\ (pc \in { "CS_Pipeline", "CS_RenderPass", "CS_ImageViews", "CS_SwapChains" }
           \/ (initialised /\ pc \in CreatePCs)) =>
          live.commandBuffers = { }

\* C23 witness: on a rebuilt chain a recording for the image of index 1 has
\* been submitted and the GPU has not completed it
C23_Witness ==
    /\ pc = "DF_WaitSubmitted"
    /\ chainsCreated = 2
    /\ imageIndex = 1
    /\ Len(inFlight) = 1
    /\ inFlight[1].commandBuffer = m_vCommandBuffers[2]
    /\ inFlight[1].commandBuffer.framebuffer.attachment.image.chain = m_currentSwapChain

\* C24: whenever the chain is built, first or rebuilt, the in-flight image
\* tracker has as many entries as the current chain has images, and an image
\* index that acquire has returned is an index of the tracker.
C24_TrackerSized ==
    /\ ChainBuilt => Len(m_vImagesInFlight) = Len(m_vSwapChainImages)
    /\ pc \in { "DF_WaitImage", "DF_MarkImage", "DF_Submit", "DF_WaitSubmitted" } =>
          InBounds

\* C25: when DrawFrame is about to issue the present, the fence of every slot
\* is signalled and the GPU has completed the submission the call has made; at
\* any instant at most one slot fence is unsignalled.
C25_PresentAfterRender ==
    /\ pc = "DF_Present" =>
          /\ UnsignalledSlots = { }
          /\ inFlight = << >>
    /\ Cardinality(UnsignalledSlots) <= 1

\* C26: whenever the thread is in the wait loop of RecreateSwapChain and the
\* framebuffer of the window is non-zero in both dimensions, the thread
\* eventually leaves the loop for the teardown and construction, or the
\* framebuffer becomes zero again, whether further window events arrive or not.
C26_WaitLoopProceeds ==
    (pc \in { "RC_LoopGetSize", "RC_WaitEvents" } /\ ~Minimised(winW, winH))
        ~> (pc \notin { "RC_LoopGetSize", "RC_WaitEvents" } \/ Minimised(winW, winH))

\* C27: when a DrawFrame call has returned early on acquire out-of-date, the
\* resize flag, the slot index, the entries of the in-flight image tracker and
\* the signalled state of every slot fence are what they were when the call
\* was entered.
C27_EarlyReturnNoEffect ==
    (pc = "MainLoop" /\ hist.prevEnd = "early") =>
        /\ hist.entry.taken
        /\ m_framebufferResized = hist.entry.flag
        /\ m_currentFrame = hist.callSlot
        /\ m_vImagesInFlight = hist.entry.tracker
        /\ m_vFences = hist.entry.fences

\* the submissions under way that signal the render-finished semaphore of slot f
SignalsToCome(f) == { i \in DOMAIN inFlight : inFlight[i].signal = f }

\* the submissions under way that wait for the image-available semaphore of slot f
WaitsUnderWay(f) == { i \in DOMAIN inFlight : inFlight[i].wait = f }

\* the signals of the render-finished semaphore of slot f, raised or to be
\* raised by a submission under way, that no present request waits for yet
RenderFinishedOpen(f) ==
    m_vRenderFinishedSemaphores[f + 1] + Cardinality(SignalsToCome(f))

\* the semaphores exist
SemaphoresCreated ==
    /\ Len(m_vImageAvailableSemaphores) = MAX_FRAMES_IN_FLIGHT
    /\ Len(m_vRenderFinishedSemaphores) = MAX_FRAMES_IN_FLIGHT

\* C22: within one DrawFrame call on slot f the acquire signals the
\* image-available semaphore of slot f, the submission of the call waits for
\* that semaphore and signals the render-finished semaphore of slot f, and the
\* present request of the call waits for that semaphore and names the image
\* index of the submission. A semaphore is signalled only when its last signal
\* has a wait: between two calls no signal is left without its wait, an acquire
\* signals a semaphore that no submission under way still waits for, and after
\* an acquire that yielded an image the call goes on to the submission unless
\* it ends in a fatal error or the process dies.
C22_SemaphoreOrdering ==
    /\ [](SemaphoresCreated =>
            /\ \A f \in Slots :
                  /\ m_vImageAvailableSemaphores[f + 1] \in { 0, 1 }
                  /\ m_vRenderFinishedSemaphores[f + 1] \in { -1, 0, 1 }
                  /\ RenderFinishedOpen(f) \in { 0, 1 }
            /\ pc \in { "MainLoop", "PollEvents", "DF_WaitFence", "DF_Acquire" } =>
                  \A f \in Slots :
                     /\ m_vImageAvailableSemaphores[f + 1] = 0
                     /\ RenderFinishedOpen(f) = 0
            /\ pc = "DF_Acquire" => WaitsUnderWay(m_currentFrame) = { }
            /\ pc \in { "DF_WaitImage", "DF_MarkImage", "DF_Submit" } =>
                  /\ m_vImageAvailableSemaphores[m_currentFrame + 1] = 1
                  /\ ~hist.submitted.made
            /\ pc \in { "DF_WaitSubmitted", "DF_Present" } =>
                  /\ hist.submitted = [ made   |-> TRUE,
                                        wait   |-> m_currentFrame,
                                        signal |-> m_currentFrame,
                                        index  |-> imageIndex ]
                  /\ m_vImageAvailableSemaphores[m_currentFrame + 1] = 0
                  /\ RenderFinishedOpen(m_currentFrame) = 1
                  /\ ~hist.presented.made
            /\ hist.presented.made =>
                  /\ hist.submitted.made
                  /\ hist.presented.wait = hist.callSlot
                  /\ hist.presented.wait = hist.submitted.signal
                  /\ hist.presented.index = hist.submitted.index)
    /\ [][ /\ pc \in { "DF_WaitImage", "DF_MarkImage", "DF_Submit" } =>
                 pc' \in { "DF_WaitImage", "DF_MarkImage", "DF_Submit",
                           "DF_WaitSubmitted", "Fatal", "Crashed" }
           /\ (SemaphoresCreated /\ pc' # "Exited"
                 /\ m_vImageAvailableSemaphores' # m_vImageAvailableSemaphores) =>
                 \/ /\ pc = "DF_Acquire"
                    /\ pc' = "DF_WaitImage"
                    /\ m_vImageAvailableSemaphores[m_currentFrame + 1] = 0
                    /\ m_vImageAvailableSemaphores' =
                          [ m_vImageAvailableSemaphores EXCEPT ![m_currentFrame + 1] = 1 ]
                 \/ /\ pc = "DF_Submit"
                    /\ pc' = "DF_WaitSubmitted"
                    /\ m_vImageAvailableSemaphores[m_currentFrame + 1] = 1
                    /\ m_vImageAvailableSemaphores' =
                          [ m_vImageAvailableSemaphores EXCEPT ![m_currentFrame + 1] = 0 ]
                    /\ inFlight'[Len(inFlight')].wait = m_currentFrame
                    /\ inFlight'[Len(inFlight')].signal = m_currentFrame
                    /\ inFlight'[Len(inFlight')].image.index = imageIndex
           /\ (SemaphoresCreated /\ pc' # "Exited"
                 /\ m_vRenderFinishedSemaphores' # m_vRenderFinishedSemaphores) =>
                 \/ /\ pc' = pc
                    /\ inFlight # << >>
                    /\ inFlight' = Tail(inFlight)
                    /\ m_vRenderFinishedSemaphores[Head(inFlight).slot + 1] <= 0
                    /\ m_vRenderFinishedSemaphores' =
                          [ m_vRenderFinishedSemaphores
                               EXCEPT ![Head(inFlight).slot + 1] = @ + 1 ]
                 \/ /\ pc = "DF_Present"
                    /\ hist'.presented = [ made  |-> TRUE,
                                           wait  |-> m_currentFrame,
                                           index |-> hist.submitted.index ]
                    /\ m_vRenderFinishedSemaphores' =
                          [ m_vRenderFinishedSemaphores
                               EXCEPT ![m_currentFrame + 1] = @ - 1 ] ]_vars

\* C22 witness: a DrawFrame call on slot 1 has acquired image 1, its submission
\* has been carried out and its present request has been made: every signal of
\* the two semaphores of the slot has had its wait
C22_Witness ==
    /\ pc = "DF_QueueWaitIdle"
    /\ hist.callSlot = 1
    /\ hist.submitted = [ made |-> TRUE, wait |-> 1, signal |-> 1, index |-> 1 ]
    /\ hist.presented = [ made |-> TRUE, wait |-> 1, index |-> 1 ]
    /\ inFlight = << >>
    /\ m_vImageAvailableSemaphores = << 0, 0 >>
    /\ m_vRenderFinishedSemaphores = << 0, 0 >>

====
